---- MODULE Spec2Model ----
(***************************************************************************)
(* Model of the ai-email-workflow repository: the daily email schedule     *)
(* (quota / warm-up) tracker, the company and email tables it works on,    *)
(* and the CLI orchestrator main() that sends the daily batch.             *)
(*                                                                         *)
(* Dates are day offsets from the current calendar day (new Date()), so    *)
(* Today is offset 0.  Every call to the row store or to an external       *)
(* collaborator may fail; a failure is an input of the action.             *)
(***************************************************************************)
EXTENDS Integers, Naturals, Sequences, FiniteSets, TLC

(* ------------------------------ bounds --------------------------------- *)
\* number of calendar days the model covers (Today and the days after it)
MaxDays == 2
\* largest emails_limit a schedule row may hold
MaxLimit == 7
\* largest limit handed to createOrUpdateEmailSchedule by an outside caller
MaxLimitArg == 2
\* number of company rows
MaxCompanies == 2
\* number of deliveries the email provider accepts
MaxSends == 3
\* number of standalone incrementEmailsSent calls per date
MaxIncCalls == 3
\* events in one SendGrid webhook call
MaxBatch == 2

(* ------------------------- program constants --------------------------- *)
DAILY_EMAIL_LIMIT == 5
EMAIL_WARMUP_INCREASE_RATE == 2

Dates == 0 .. (MaxDays - 1)
Today == CHOOSE d \in Dates : \A e \in Dates : d <= e
CompanyIds == 1 .. MaxCompanies
Procs == {"p1", "p2"}
NoRow == [absent |-> TRUE]

Max(a, b) == IF a >= b THEN a ELSE b
Min(a, b) == IF a <= b THEN a ELSE b

VARIABLES
  schedule,    \* email_schedule table: date -> row or NoRow
  companies,   \* companies table: id -> row
  emails,      \* emails table: sequence of rows in insertion order
  deliveries,  \* emails accepted by the delivery provider: company ids, in order
  incReturned, \* date -> number of incrementEmailsSent calls that returned a row
  rowCount,    \* date -> number of email_schedule rows carrying that date
  hook,        \* the webhook call being handled, with the results it collected
  ret,         \* outcome of the last completed API call
  pc,          \* proc -> position in the call it is running
  loc          \* proc -> local variables of the call it is running

vars == <<schedule, companies, emails, deliveries, incReturned, rowCount, hook, ret, pc, loc>>

(* ----------------------- email_schedule rows --------------------------- *)
\* the row inserted by createOrUpdateEmailSchedule when the date has none
NewScheduleRow(limit) ==
  [emails_limit |-> limit, emails_sent |-> 0, is_completed |-> FALSE]

\* as RowWithLimit, but the update also resets the counter
RowWithLimitResetting(row, limit) ==
  [row EXCEPT !.emails_limit = limit, !.emails_sent = 0]

\* update({emails_limit: limit}) on the stored row
RowWithLimit(row, limit) == [row EXCEPT !.emails_limit = limit]

\* as LimitReached, but with > for >=
LimitReachedStrict(row) == row.emails_sent > row.emails_limit

\* the limit check of incrementEmailsSent on the row it read
LimitReached(row) == row.emails_sent >= row.emails_limit

\* as NextEmailsSent, but stepping by two
NextEmailsSentByTwo(read) == read.emails_sent + 2

\* value written for emails_sent by incrementEmailsSent from the row it read
NextEmailsSent(read) == read.emails_sent + 1

\* update({emails_sent, is_completed}) computed from the row that was read,
\* applied to the row that is stored under the same id
RowIncremented(stored, read) ==
  [stored EXCEPT !.emails_sent = NextEmailsSent(read),
                 !.is_completed = NextEmailsSent(read) >= read.emails_limit]

\* as RemainingOf, but without Math.max(0, ...)
RemainingOfUnclamped(row) == row.emails_limit - row.emails_sent

\* the value getRemainingEmailQuota returns for an existing row
RemainingOf(row) == Max(0, row.emails_limit - row.emails_sent)

Outcome(sched, result, value) ==
  [schedule |-> sched, result |-> result, value |-> value]

(* --------------- schedule tracker, one call run to its end ------------- *)
\* fault: "none", "get" (the getEmailSchedule read fails) or "put" (the
\* update / insert fails)
createOrUpdateEmailSchedule(sched, d, limit, fault) ==
  IF fault = "get" THEN Outcome(sched, "store_error", NoRow)
  ELSE IF fault = "put" THEN Outcome(sched, "store_error", NoRow)
  ELSE IF sched[d] # NoRow
    THEN LET s == [sched EXCEPT ![d] = RowWithLimit(sched[d], limit)]
         IN Outcome(s, "ok", s[d])
    ELSE LET s == [sched EXCEPT ![d] = NewScheduleRow(limit)]
         IN Outcome(s, "ok", s[d])

incrementEmailsSent(sched, d, fault) ==
  IF fault = "get" THEN Outcome(sched, "store_error", NoRow)
  ELSE IF sched[d] = NoRow THEN Outcome(sched, "no_schedule", NoRow)
  ELSE IF LimitReached(sched[d]) THEN Outcome(sched, "limit_reached", NoRow)
  ELSE IF fault = "put" THEN Outcome(sched, "store_error", NoRow)
  ELSE LET s == [sched EXCEPT ![d] = RowIncremented(sched[d], sched[d])]
       IN Outcome(s, "ok", s[d])

getRemainingEmailQuota(sched, fault) ==
  IF fault = "get" THEN Outcome(sched, "store_error", 0)
  ELSE IF sched[Today] = NoRow
    THEN LET c == createOrUpdateEmailSchedule(sched, Today, DAILY_EMAIL_LIMIT, fault)
         IN IF c.result = "ok"
              THEN Outcome(c.schedule, "ok", c.value.emails_limit)
              ELSE Outcome(c.schedule, c.result, 0)
    ELSE Outcome(sched, "ok", RemainingOf(sched[Today]))

\* the row with the greatest scheduled_date, as a sequence of at most one row
LatestSchedule(sched) ==
  LET have == {d \in Dates : sched[d] # NoRow}
  IN IF have = {} THEN << >>
     ELSE << sched[CHOOSE d \in have : \A e \in have : e <= d] >>

\* as StartingLimit, but without the increase over the latest schedule
StartingLimitOfLatest(sched) ==
  IF Len(LatestSchedule(sched)) > 0
    THEN LatestSchedule(sched)[1].emails_limit
    ELSE DAILY_EMAIL_LIMIT

\* the limit generateEmailSchedules starts from
StartingLimit(sched) ==
  IF Len(LatestSchedule(sched)) > 0
    THEN LatestSchedule(sched)[1].emails_limit + EMAIL_WARMUP_INCREASE_RATE
    ELSE DAILY_EMAIL_LIMIT

\* the for loop of generateEmailSchedules from day offset i on; failAt is the
\* day offset whose createOrUpdateEmailSchedule call fails (-1: none does)
RECURSIVE GenerateLoop(_, _, _, _, _)
GenerateLoop(sched, i, days, currentLimit, failAt) ==
  IF i >= days THEN Outcome(sched, "ok", days)
  ELSE LET c == createOrUpdateEmailSchedule(sched, Today + i, currentLimit,
                                            IF failAt = i THEN "put" ELSE "none")
       IN IF c.result # "ok" THEN Outcome(c.schedule, c.result, i)
          ELSE GenerateLoop(c.schedule, i + 1, days,
                            currentLimit + EMAIL_WARMUP_INCREASE_RATE, failAt)

\* failAt = -2: the query for the latest schedule fails
generateEmailSchedules(sched, days, failAt) ==
  IF failAt = -2 THEN Outcome(sched, "store_error", 0)
  ELSE GenerateLoop(sched, 0, days, StartingLimit(sched), failAt)

Faults == {"none", "get", "put"}

(* ------------------- actions: tracker calls, atomic -------------------- *)
Quiet == UNCHANGED <<companies, emails, deliveries, hook, pc, loc>>

\* the rows per date once a tracker call has left the table as s2: the call
\* inserts a row (schema.sql:195-203) exactly where it found none
RowsAfter(s2) ==
  [d \in Dates |-> rowCount[d] + IF schedule[d] = NoRow /\ s2[d] # NoRow THEN 1 ELSE 0]

\* value: the number returned, or the field of the returned row the caller
\* reads (emails_limit of createOrUpdateEmailSchedule's row, emails_sent of
\* incrementEmailsSent's); 0 when the call threw
CallRecord(op, d, arg, result, value) ==
  [op |-> op, date |-> d, arg |-> arg, result |-> result, value |-> value]

CreateOrUpdateEmailSchedule ==
  \E d \in Dates, limit \in 0 .. MaxLimitArg, fault \in Faults :
    LET out == createOrUpdateEmailSchedule(schedule, d, limit, fault)
    IN /\ schedule' = out.schedule
       /\ rowCount' = RowsAfter(out.schedule)
       /\ ret' = CallRecord("createOrUpdateEmailSchedule", d, limit, out.result,
                          IF out.result = "ok" THEN out.value.emails_limit ELSE 0)
       /\ UNCHANGED incReturned
       /\ Quiet

IncrementEmailsSent(d) ==
  \E fault \in Faults :
    LET out == incrementEmailsSent(schedule, d, fault)
    IN /\ schedule' = out.schedule
       /\ ret' = CallRecord("incrementEmailsSent", d, 0, out.result,
                          IF out.result = "ok" THEN out.value.emails_sent ELSE 0)
       /\ incReturned' = IF out.result = "ok"
                           THEN [incReturned EXCEPT ![d] = @ + 1]
                           ELSE incReturned
       /\ UNCHANGED rowCount
       /\ Quiet

GetRemainingEmailQuota ==
  \E fault \in Faults :
    LET out == getRemainingEmailQuota(schedule, fault)
    IN /\ schedule' = out.schedule
       /\ rowCount' = RowsAfter(out.schedule)
       /\ ret' = CallRecord("getRemainingEmailQuota", Today, 0, out.result, out.value)
       /\ UNCHANGED incReturned
       /\ Quiet

GenerateEmailSchedules ==
  \E days \in 1 .. MaxDays, failAt \in -2 .. (MaxDays - 1) :
    /\ failAt < days
    /\ StartingLimit(schedule) + (days - 1) * EMAIL_WARMUP_INCREASE_RATE <= MaxLimit
    /\ LET out == generateEmailSchedules(schedule, days, failAt)
       IN /\ schedule' = out.schedule
          /\ rowCount' = RowsAfter(out.schedule)
          /\ ret' = CallRecord("generateEmailSchedules", Today, days, out.result, out.value)
    /\ UNCHANGED incReturned
    /\ Quiet

(* ------------------------------ initial states ------------------------- *)
NoCall == [op |-> "none", date |-> Today, arg |-> 0, result |-> "none", value |-> 0]

IdleLoc ==
  [quota |-> 0, batch |-> << >>, idx |-> 0, date |-> Today, read |-> NoRow, messageId |-> 0,
   limitError |-> FALSE]

\* what a webhook call returns besides its results: success, and error as
\* the parts of the error text (none on success)
\* event is the event name where the returned object carries it, "" otherwise
Reply(success, error, event, messageId) ==
  [success |-> success, error |-> error, event |-> event, messageId |-> messageId]

\* no webhook call is being handled; count events came with the call,
\* remaining of them are still to be handled
\* event is payload.event of a Mailgun call, "" otherwise
NoHook ==
  [provider |-> "none", count |-> 0, remaining |-> 0, results |-> << >>,
   event |-> "", reply |-> Reply(TRUE, << >>, "", 0)]

\* companies as imported: pending, with a verified address, priority 1 or 2
InitCompanies ==
  companies \in [CompanyIds -> [email_verified : {TRUE}, status : {"pending"},
                                priority : {1, 2}]]

InitRest ==
  /\ emails = << >>
  /\ deliveries = << >>
  /\ incReturned = [d \in Dates |-> 0]
  /\ rowCount = [d \in Dates |-> IF schedule[d] = NoRow THEN 0 ELSE 1]
  /\ hook = NoHook
  /\ ret = NoCall
  /\ pc = [p \in Procs |-> "idle"]
  /\ loc = [p \in Procs |-> IdleLoc]

\* the store as first deployed: no schedule row yet
InitTracker ==
  /\ schedule = [d \in Dates |-> NoRow]
  /\ companies = [c \in CompanyIds |->
                   [email_verified |-> TRUE, status |-> "pending", priority |-> 1]]
  /\ InitRest

\* schedule rows as createOrUpdateEmailSchedule leaves them on first insert
InitFresh ==
  /\ schedule \in [Dates -> {NoRow} \cup {NewScheduleRow(l) : l \in 0 .. MaxLimitArg}]
  /\ companies = [c \in CompanyIds |->
                   [email_verified |-> TRUE, status |-> "pending", priority |-> 1]]
  /\ InitRest

\* the repository's caller of incrementEmailsSent passes new Date(): Today
NextTracker ==
  \/ CreateOrUpdateEmailSchedule
  \/ IncrementEmailsSent(Today)
  \/ GetRemainingEmailQuota
  \/ GenerateEmailSchedules

SpecTracker == InitTracker /\ [][NextTracker]_vars

NextIncSeq == \E d \in Dates : IncrementEmailsSent(d)

SpecIncSeq == InitFresh /\ [][NextIncSeq]_vars

(* ------------- incrementEmailsSent, one store call per step ------------ *)
\* The call reads the row (getEmailSchedule) and later writes the values it
\* computed from that read; other callers may run between the two.
IncRunning(d) == Cardinality({p \in Procs : pc[p] \in {"inc_get", "inc_put"} /\ loc[p].date = d})

IncStart(p, d) ==
  /\ pc[p] = "idle"
  /\ incReturned[d] + IncRunning(d) < MaxIncCalls
  /\ pc' = [pc EXCEPT ![p] = "inc_get"]
  /\ loc' = [loc EXCEPT ![p] = [IdleLoc EXCEPT !.date = d]]
  /\ UNCHANGED <<schedule, companies, emails, deliveries, incReturned, ret, rowCount, hook>>

IncReturn(p, result, value) ==
  /\ pc' = [pc EXCEPT ![p] = "idle"]
  /\ loc' = [loc EXCEPT ![p] = IdleLoc]
  /\ ret' = CallRecord("incrementEmailsSent", loc[p].date, 0, result, value)
  /\ incReturned' = IF result = "ok"
                      THEN [incReturned EXCEPT ![loc[p].date] = @ + 1]
                      ELSE incReturned

IncGet(p) ==
  /\ pc[p] = "inc_get"
  /\ \E ok \in BOOLEAN :
       LET row == schedule[loc[p].date]
       IN IF ~ok THEN IncReturn(p, "store_error", 0)
          ELSE IF row = NoRow THEN IncReturn(p, "no_schedule", 0)
          ELSE IF LimitReached(row) THEN IncReturn(p, "limit_reached", 0)
          ELSE /\ pc' = [pc EXCEPT ![p] = "inc_put"]
               /\ loc' = [loc EXCEPT ![p].read = row]
               /\ UNCHANGED <<incReturned, ret>>
  /\ UNCHANGED <<schedule, companies, emails, deliveries, rowCount, hook>>

IncPut(p) ==
  /\ pc[p] = "inc_put"
  /\ \E ok \in BOOLEAN :
       IF ok
         THEN /\ schedule' = [schedule EXCEPT ![loc[p].date] =
                                RowIncremented(schedule[loc[p].date], loc[p].read)]
              /\ IncReturn(p, "ok", NextEmailsSent(loc[p].read))
         ELSE /\ UNCHANGED schedule
              /\ IncReturn(p, "store_error", 0)
  /\ UNCHANGED <<companies, emails, deliveries, rowCount, hook>>

NextIncConc ==
  \E p \in Procs :
    \/ \E d \in Dates : IncStart(p, d)
    \/ IncGet(p)
    \/ IncPut(p)

SpecIncConc == InitFresh /\ [][NextIncConc]_vars

(* ------------------- companies selected for a run ---------------------- *)
\* as Eligible, but without .eq("email_verified", true)
EligibleAnyAddress(comp) == {c \in CompanyIds : comp[c].status = "pending"}

\* as Eligible, but without .eq("status", "pending")
EligibleAnyStatus(comp) == {c \in CompanyIds : comp[c].email_verified}

\* rows matching .eq("email_verified", true).eq("status", "pending")
Eligible(comp) ==
  {c \in CompanyIds : comp[c].email_verified /\ comp[c].status = "pending"}

RECURSIVE SeqsOver(_, _)
\* sequences of n distinct elements of S
SeqsOver(S, n) ==
  IF n = 0 THEN {<< >>}
  ELSE UNION {{Append(t, c) : c \in S \ {t[i] : i \in 1 .. Len(t)}} : t \in SeqsOver(S, n - 1)}

\* as CompaniesForDailyEmails, but without .limit(limit)
CompaniesForDailyEmailsUnlimited(comp, limit) ==
  LET E == Eligible(comp)
      n == Cardinality(E)
  IN {b \in SeqsOver(E, n) :
        \A i, j \in 1 .. n : i < j => comp[b[i]].priority <= comp[b[j]].priority}

\* the results .order("priority", {ascending: true}).limit(limit) may return:
\* the first rows in ascending priority, rows of equal priority in any order
CompaniesForDailyEmails(comp, limit) ==
  LET E == Eligible(comp)
      n == Min(limit, Cardinality(E))
  IN {b \in SeqsOver(E, n) :
        /\ \A i, j \in 1 .. n : i < j => comp[b[i]].priority <= comp[b[j]].priority
        /\ \A c \in E \ {b[i] : i \in 1 .. n} :
             \A i \in 1 .. n : comp[b[i]].priority <= comp[c].priority}

\* the row createEmail inserts after a send
\* as SentEmail, but without the reference to the company
SentEmailUnreferenced(companyId, messageId) ==
  [company_id |-> 0, status |-> "sent", message_id |-> messageId,
   opened_at |-> 0, clicked_at |-> 0]

\* as SentEmail, but status is left to the column's default
SentEmailAsDraft(companyId, messageId) ==
  [company_id |-> companyId, status |-> "draft", message_id |-> messageId,
   opened_at |-> 0, clicked_at |-> 0]

\* opened_at and clicked_at are not set: 0
SentEmail(companyId, messageId) ==
  [company_id |-> companyId, status |-> "sent", message_id |-> messageId,
   opened_at |-> 0, clicked_at |-> 0]

\* update of markCompanyAsContacted
Contacted(row) == [row EXCEPT !.status = "contacted"]

(* --------------------- main(), one call per step ----------------------- *)
Company(p) == loc[p].batch[loc[p].idx]

\* main returns: by its early returns, its outer catch, or the end of the loop
MainReturn(p, result) ==
  /\ pc' = [pc EXCEPT ![p] = "idle"]
  /\ loc' = [loc EXCEPT ![p] = IdleLoc]
  /\ ret' = CallRecord("main", Today, 0, result, 0)

\* the for loop goes on to the next company of the batch, or ends
LoopOn(p, limitError) ==
  IF loc[p].idx < Len(loc[p].batch)
    THEN /\ pc' = [pc EXCEPT ![p] = "generate"]
         /\ loc' = [loc EXCEPT ![p].idx = @ + 1, ![p].read = NoRow, ![p].messageId = 0,
                               ![p].limitError = limitError]
         /\ UNCHANGED ret
    ELSE MainReturn(p, "completed")

\* the end of the loop body
NextCompany(p) == LoopOn(p, loc[p].limitError)

\* as CompanyFailed, but the error leaves the loop for main's outer catch
CompanyFailedAborting(p, limitError) == MainReturn(p, "error")

\* the loop's catch: the error is logged and the loop goes on; limitError
\* tells that the error caught is incrementEmailsSent's limit error
CompanyFailed(p, limitError) == LoopOn(p, loc[p].limitError \/ limitError)

\* as WithQuota, but without the check of remainingQuota <= 0
WithQuotaUnchecked(p, q) ==
  /\ pc' = [pc EXCEPT ![p] = "select"]
  /\ loc' = [loc EXCEPT ![p].quota = q]
  /\ UNCHANGED ret

\* remainingQuota is known: the quota check and on to the selection
WithQuota(p, q) ==
  IF q <= 0 THEN MainReturn(p, "quota_reached")
  ELSE /\ pc' = [pc EXCEPT ![p] = "select"]
       /\ loc' = [loc EXCEPT ![p].quota = q]
       /\ UNCHANGED ret

MainStart(p) ==
  /\ pc[p] = "idle"
  /\ pc' = [pc EXCEPT ![p] = "quota_get"]
  /\ loc' = [loc EXCEPT ![p] = IdleLoc]
  /\ UNCHANGED <<schedule, companies, emails, deliveries, incReturned, ret, rowCount, hook>>

\* getRemainingEmailQuota: getEmailSchedule(today)
QuotaGet(p) ==
  /\ pc[p] = "quota_get"
  /\ \E ok \in BOOLEAN :
       IF ~ok THEN MainReturn(p, "error")
       ELSE IF schedule[Today] = NoRow
         THEN /\ pc' = [pc EXCEPT ![p] = "cou_get"]
              /\ UNCHANGED <<loc, ret>>
         ELSE WithQuota(p, RemainingOf(schedule[Today]))
  /\ UNCHANGED <<schedule, companies, emails, deliveries, incReturned, rowCount, hook>>

\* createOrUpdateEmailSchedule(today, DAILY_EMAIL_LIMIT): getEmailSchedule
QuotaCreateGet(p) ==
  /\ pc[p] = "cou_get"
  /\ \E ok \in BOOLEAN :
       IF ~ok THEN MainReturn(p, "error")
       ELSE /\ pc' = [pc EXCEPT ![p] = IF schedule[Today] = NoRow
                                         THEN "cou_insert" ELSE "cou_update"]
            /\ UNCHANGED <<loc, ret>>
  /\ UNCHANGED <<schedule, companies, emails, deliveries, incReturned, rowCount, hook>>

\* as UniqueViolation, but for a table without the constraint
UniqueViolationNever(sched, d) == FALSE

\* UNIQUE(scheduled_date): an insert for a date that has a row is rejected
UniqueViolation(sched, d) == sched[d] # NoRow

\* createOrUpdateEmailSchedule: the insert of a row for today; a rejected
\* insert throws, out of main's outer catch
QuotaCreateInsert(p) ==
  /\ pc[p] = "cou_insert"
  /\ \E ok \in BOOLEAN :
       IF ~ok
         THEN /\ UNCHANGED <<schedule, rowCount>>
              /\ MainReturn(p, "error")
       ELSE IF UniqueViolation(schedule, Today)
         THEN /\ UNCHANGED <<schedule, rowCount>>
              /\ MainReturn(p, "duplicate_date")
         ELSE /\ schedule' = [schedule EXCEPT ![Today] = NewScheduleRow(DAILY_EMAIL_LIMIT)]
              /\ rowCount' = [rowCount EXCEPT ![Today] = @ + 1]
              /\ WithQuota(p, NewScheduleRow(DAILY_EMAIL_LIMIT).emails_limit)
  /\ UNCHANGED <<companies, emails, deliveries, incReturned, hook>>

\* createOrUpdateEmailSchedule: the update of the row found
QuotaCreateUpdate(p) ==
  /\ pc[p] = "cou_update"
  /\ \E ok \in BOOLEAN :
       IF ~ok
         THEN /\ UNCHANGED schedule
              /\ MainReturn(p, "error")
         ELSE /\ schedule' = [schedule EXCEPT ![Today] = RowWithLimit(@, DAILY_EMAIL_LIMIT)]
              /\ WithQuota(p, RowWithLimit(schedule[Today], DAILY_EMAIL_LIMIT).emails_limit)
  /\ UNCHANGED <<companies, emails, deliveries, incReturned, rowCount, hook>>

\* getCompaniesForDailyEmails(remainingQuota)
SelectCompanies(p) ==
  /\ pc[p] = "select"
  /\ \E ok \in BOOLEAN :
       IF ~ok THEN MainReturn(p, "error")
       ELSE \E b \in CompaniesForDailyEmails(companies, loc[p].quota) :
              IF Len(b) = 0 THEN MainReturn(p, "no_companies")
              ELSE /\ pc' = [pc EXCEPT ![p] = "generate"]
                   /\ loc' = [loc EXCEPT ![p].batch = b, ![p].idx = 1]
                   /\ UNCHANGED ret
  /\ UNCHANGED <<schedule, companies, emails, deliveries, incReturned, rowCount, hook>>

\* generateEmailContent
GenerateContent(p) ==
  /\ pc[p] = "generate"
  /\ \E ok \in BOOLEAN :
       IF ok THEN /\ pc' = [pc EXCEPT ![p] = "send"]
                  /\ UNCHANGED <<loc, ret>>
       ELSE CompanyFailed(p, FALSE)
  /\ UNCHANGED <<schedule, companies, emails, deliveries, incReturned, rowCount, hook>>

\* sendJobApplicationEmail: the provider accepts the message and returns its
\* message id (the position in deliveries), or the call throws
SendEmail(p) ==
  /\ pc[p] = "send"
  /\ \E ok \in BOOLEAN :
       IF ok THEN /\ Len(deliveries) < MaxSends
                  /\ deliveries' = Append(deliveries, Company(p))
                  /\ pc' = [pc EXCEPT ![p] = "create_email"]
                  /\ loc' = [loc EXCEPT ![p].messageId = Len(deliveries) + 1]
                  /\ UNCHANGED ret
       ELSE /\ UNCHANGED deliveries
            /\ CompanyFailed(p, FALSE)
  /\ UNCHANGED <<schedule, companies, emails, incReturned, rowCount, hook>>

\* createEmail({company_id, status: "sent", message_id: emailResult.messageId})
CreateEmail(p) ==
  /\ pc[p] = "create_email"
  /\ \E ok \in BOOLEAN :
       IF ok THEN /\ emails' = Append(emails, SentEmail(Company(p), loc[p].messageId))
                  /\ pc' = [pc EXCEPT ![p] = "mark"]
                  /\ UNCHANGED <<loc, ret>>
       ELSE /\ UNCHANGED emails
            /\ CompanyFailed(p, FALSE)
  /\ UNCHANGED <<schedule, companies, deliveries, incReturned, rowCount, hook>>

\* markCompanyAsContacted(company.id)
MarkContacted(p) ==
  /\ pc[p] = "mark"
  /\ \E ok \in BOOLEAN :
       IF ok THEN /\ companies' = [companies EXCEPT ![Company(p)] = Contacted(@)]
                  /\ pc' = [pc EXCEPT ![p] = "main_inc_get"]
                  /\ UNCHANGED <<loc, ret>>
       ELSE /\ UNCHANGED companies
            /\ CompanyFailed(p, FALSE)
  /\ UNCHANGED <<schedule, emails, deliveries, incReturned, rowCount, hook>>

\* incrementEmailsSent(new Date()): getEmailSchedule and the limit check; what
\* it throws is caught by the loop's catch
MainIncGet(p) ==
  /\ pc[p] = "main_inc_get"
  /\ \E ok \in BOOLEAN :
       IF ok /\ schedule[Today] # NoRow /\ ~LimitReached(schedule[Today])
         THEN /\ pc' = [pc EXCEPT ![p] = "main_inc_put"]
              /\ loc' = [loc EXCEPT ![p].read = schedule[Today]]
              /\ UNCHANGED ret
         ELSE CompanyFailed(p, ok /\ schedule[Today] # NoRow)
  /\ UNCHANGED <<schedule, companies, emails, deliveries, incReturned, rowCount, hook>>

\* incrementEmailsSent(new Date()): the update
MainIncPut(p) ==
  /\ pc[p] = "main_inc_put"
  /\ \E ok \in BOOLEAN :
       IF ok
         THEN /\ schedule' = [schedule EXCEPT ![Today] = RowIncremented(@, loc[p].read)]
              /\ incReturned' = [incReturned EXCEPT ![Today] = @ + 1]
              /\ NextCompany(p)
         ELSE /\ UNCHANGED <<schedule, incReturned>>
              /\ CompanyFailed(p, FALSE)
  /\ UNCHANGED <<companies, emails, deliveries, rowCount, hook>>

\* today's row as an earlier call left it: none yet, or inserted with a limit
InitOrch ==
  /\ schedule \in {[d \in Dates |-> IF d = Today THEN r ELSE NoRow] :
                     r \in {NoRow} \cup {NewScheduleRow(l) : l \in 0 .. MaxLimitArg}}
  /\ InitCompanies
  /\ InitRest

MainStep(p) ==
  \/ QuotaGet(p)
  \/ QuotaCreateGet(p)
  \/ QuotaCreateInsert(p)
  \/ SelectCompanies(p)
  \/ GenerateContent(p)
  \/ SendEmail(p)
  \/ CreateEmail(p)
  \/ MarkContacted(p)
  \/ MainIncGet(p)
  \/ MainIncPut(p)

\* invocations one after the other: one proc runs main() again and again.
\* The update branch of createOrUpdateEmailSchedule is not reachable then.
SeqProc == CHOOSE p \in Procs : TRUE

NextOrchSeq ==
  \/ MainStart(SeqProc)
  \/ MainStep(SeqProc)

SpecOrchSeq == InitOrch /\ [][NextOrchSeq]_vars

\* invocations that overlap
NextOrchConc ==
  \E p \in Procs :
    \/ MainStart(p)
    \/ MainStep(p)
    \/ QuotaCreateUpdate(p)

\* overlapping runs start from companies of one priority: the store may then
\* return them in any order
InitOrchConc ==
  /\ InitOrch
  /\ \A c \in CompanyIds : companies[c].priority = 1

SpecOrchConc == InitOrchConc /\ [][NextOrchConc]_vars

\* one run at a time, while another process counts sends on today's row
NextOrchRace ==
  \/ MainStart(SeqProc)
  \/ MainStep(SeqProc)
  \/ IncrementEmailsSent(Today)

SpecOrchRace == InitOrch /\ [][NextOrchRace]_vars

(* ------------- the schedule table under overlapping creators ----------- *)
\* every company has been contacted: a run ends after its quota check
InitRows ==
  /\ schedule = [d \in Dates |-> NoRow]
  /\ companies = [c \in CompanyIds |->
                   [email_verified |-> TRUE, status |-> "contacted", priority |-> 1]]
  /\ InitRest

\* createOrUpdateEmailSchedule calls of other callers, and runs that overlap
\* in their quota check
NextRows ==
  \/ CreateOrUpdateEmailSchedule
  \/ \E p \in Procs :
       \/ MainStart(p)
       \/ QuotaGet(p)
       \/ QuotaCreateGet(p)
       \/ QuotaCreateInsert(p)
       \/ QuotaCreateUpdate(p)
       \/ SelectCompanies(p)

SpecRows == InitRows /\ [][NextRows]_vars

(* ---------------------- tracking webhook ------------------------------ *)
\* event.timestamp of the provider's events
Timestamps == {1, 2}

\* event names of the two providers; "delivered" stands for every name the
\* handlers have no case for
SendGridEvents == {"open", "click", "bounce", "delivered"}
MailgunEvents == {"opened", "clicked", "bounced", "delivered"}

\* the message of a store error
StoreErrorMessage == "store error"

\* store faults of one event's handling: none, or the failing call: the
\* email lookup, the email update, the company update
HookFaults == {"none", "lookup", "email", "company"}

\* as FindEmail, but .eq("message_id", ...) is left out of the query
FindEmailAny(em, messageId) == IF Len(em) > 0 THEN 1 ELSE 0

\* select from emails .eq("message_id", messageId).limit(1): the position of
\* the row found, 0 when there is none
FindEmail(em, messageId) ==
  LET found == {i \in 1 .. Len(em) : em[i].message_id = messageId}
  IN IF found = {} THEN 0 ELSE CHOOSE i \in found : \A j \in found : i <= j

\* as Thrown, but the error a store call returns is never looked at
ThrownNever(fault, call) == FALSE

\* if (error) throw error, after the store call named call
Thrown(fault, call) == fault = call

EmailOpened(row, ts) == [row EXCEPT !.status = "opened", !.opened_at = ts]

\* as EmailClicked, but the update also writes opened_at
EmailClickedAsOpened(row, ts) ==
  [row EXCEPT !.status = "clicked", !.clicked_at = ts, !.opened_at = ts]

\* update({status: clicked, clicked_at})
EmailClicked(row, ts) == [row EXCEPT !.status = "clicked", !.clicked_at = ts]

\* as EmailBounced, but a second bounce puts the email back to sent
EmailBouncedToggling(row) ==
  [row EXCEPT !.status = IF @ = "bounced" THEN "sent" ELSE "bounced"]

EmailBounced(row) == [row EXCEPT !.status = "bounced"]

\* as Unverified, but the company is also put back to pending
UnverifiedAndPending(row) == [row EXCEPT !.email_verified = FALSE, !.status = "pending"]

\* companies update({email_verified: false})
Unverified(row) == [row EXCEPT !.email_verified = FALSE]

Handled(em, comp, outcome) == [emails |-> em, companies |-> comp, outcome |-> outcome]

\* the update of the email row at position i, which a failing call leaves out
EmailUpdate(em, i, row, fault) == IF fault = "email" THEN em ELSE [em EXCEPT ![i] = row]

\* the body of the try of both handlers for one event of kind "open", "click",
\* "bounce" or "other"; outcome "success", "not_found", "unsupported", "error"
HandleEvent(em, comp, kind, messageId, ts, fault) ==
  LET i == FindEmail(em, messageId)
  IN IF Thrown(fault, "lookup") THEN Handled(em, comp, "error")
     ELSE IF fault = "lookup" \/ i = 0 THEN Handled(em, comp, "not_found")
     ELSE IF kind = "open"
       THEN IF Thrown(fault, "email") THEN Handled(em, comp, "error")
            ELSE Handled(EmailUpdate(em, i, EmailOpened(em[i], ts), fault), comp, "success")
     ELSE IF kind = "click"
       THEN IF Thrown(fault, "email") THEN Handled(em, comp, "error")
            ELSE Handled(EmailUpdate(em, i, EmailClicked(em[i], ts), fault), comp, "success")
     ELSE IF kind = "bounce"
       THEN IF Thrown(fault, "email") THEN Handled(em, comp, "error")
            ELSE LET em2 == EmailUpdate(em, i, EmailBounced(em[i]), fault)
                 IN IF Thrown(fault, "company") THEN Handled(em2, comp, "error")
                    ELSE Handled(em2,
                                 IF fault = "company" THEN comp
                                 ELSE [comp EXCEPT ![em[i].company_id] = Unverified(@)],
                                 "success")
     ELSE Handled(em, comp, "unsupported")

\* as SendGridKind, but the switch has no default: every other name falls
\* into the bounce case
SendGridKindNoDefault(event) ==
  IF event = "open" THEN "open"
  ELSE IF event = "click" THEN "click"
  ELSE "bounce"

\* switch (event.event) of processSendGridWebhook
SendGridKind(event) ==
  IF event = "open" THEN "open"
  ELSE IF event = "click" THEN "click"
  ELSE IF event = "bounce" THEN "bounce"
  ELSE "other"

MailgunKind(event) ==
  IF event = "opened" THEN "open"
  ELSE IF event = "clicked" THEN "click"
  ELSE IF event = "bounced" THEN "bounce"
  ELSE "other"

\* the entry processSendGridWebhook pushes for an event
SendGridResult(event, messageId, outcome) ==
  [event |-> event, messageId |-> messageId,
   status |-> IF outcome = "success" THEN "success"
              ELSE IF outcome = "error" THEN "error" ELSE "skipped",
   reason |-> IF outcome = "not_found" THEN "Email not found"
              ELSE IF outcome = "unsupported" THEN "Unsupported event type" ELSE "",
   error |-> IF outcome = "error" THEN StoreErrorMessage ELSE ""]

\* what processMailgunWebhook returns for its event
MailgunReply(event, messageId, outcome) ==
  IF outcome = "success" THEN Reply(TRUE, << >>, event, messageId)
  ELSE IF outcome = "not_found" THEN Reply(FALSE, <<"Email not found">>, "", messageId)
  ELSE IF outcome = "unsupported"
    THEN Reply(FALSE, <<"Unsupported event type: ", event>>, "", messageId)
  ELSE Reply(FALSE, <<StoreErrorMessage>>, event, messageId)

\* message ids an event may carry: those of the emails, and one of no email
EventMessageIds == 1 .. (Len(emails) + 1)

HookQuiet == UNCHANGED <<schedule, deliveries, incReturned, rowCount, ret, pc, loc>>

\* processSendGridWebhook is called with an array of count events
SendGridStart ==
  /\ hook.remaining = 0
  /\ \E count \in 0 .. MaxBatch :
       hook' = [NoHook EXCEPT !.provider = "sendgrid", !.count = count,
                              !.remaining = count]
  /\ UNCHANGED <<emails, companies>>
  /\ HookQuiet

\* processSendGridWebhook is called with a payload that is not an array
SendGridInvalid ==
  /\ hook.remaining = 0
  /\ hook' = [NoHook EXCEPT !.provider = "sendgrid",
                            !.reply = Reply(FALSE, <<"Invalid SendGrid webhook payload">>, "", 0)]
  /\ UNCHANGED <<emails, companies>>
  /\ HookQuiet

\* one pass of the for loop: the next event of the array, whatever it is
SendGridEvent ==
  /\ hook.provider = "sendgrid"
  /\ hook.remaining > 0
  /\ \E event \in SendGridEvents, messageId \in EventMessageIds,
        ts \in Timestamps, fault \in HookFaults :
       LET out == HandleEvent(emails, companies, SendGridKind(event), messageId, ts, fault)
       IN /\ emails' = out.emails
          /\ companies' = out.companies
          /\ hook' = [hook EXCEPT
                        !.remaining = @ - 1,
                        !.results = Append(@, SendGridResult(event, messageId, out.outcome))]
  /\ HookQuiet

\* processMailgunWebhook: one event per call
MailgunWebhook ==
  /\ hook.remaining = 0
  /\ \E event \in MailgunEvents, messageId \in EventMessageIds,
        ts \in Timestamps, fault \in HookFaults :
       LET out == HandleEvent(emails, companies, MailgunKind(event), messageId, ts, fault)
       IN /\ emails' = out.emails
          /\ companies' = out.companies
          /\ hook' = [NoHook EXCEPT !.provider = "mailgun",
                                    !.event = event,
                                    !.reply = MailgunReply(event, messageId, out.outcome)]
  /\ HookQuiet

\* the store after a first run that found no schedule row and sent one email,
\* to the first company: the email is recorded, the company contacted, the
\* send counted
InitWebhook ==
  /\ schedule = [d \in Dates |->
                   IF d = Today
                     THEN RowIncremented(NewScheduleRow(DAILY_EMAIL_LIMIT),
                                         NewScheduleRow(DAILY_EMAIL_LIMIT))
                     ELSE NoRow]
  /\ companies = [c \in CompanyIds |->
                   [email_verified |-> TRUE,
                    status |-> IF c = 1 THEN "contacted" ELSE "pending",
                    priority |-> 1]]
  /\ emails = <<SentEmail(1, 1)>>
  /\ deliveries = <<1>>
  /\ incReturned = [d \in Dates |-> IF d = Today THEN 1 ELSE 0]
  /\ rowCount = [d \in Dates |-> IF d = Today THEN 1 ELSE 0]
  /\ hook = NoHook
  /\ ret = CallRecord("main", Today, 0, "completed", 0)
  /\ pc = [p \in Procs |-> "idle"]
  /\ loc = [p \in Procs |-> IdleLoc]

\* processSendGridWebhook called with an array of one event, run to its end
SendGridOne ==
  /\ hook.remaining = 0
  /\ \E event \in SendGridEvents, messageId \in EventMessageIds,
        ts \in Timestamps, fault \in HookFaults :
       LET out == HandleEvent(emails, companies, SendGridKind(event), messageId, ts, fault)
       IN /\ emails' = out.emails
          /\ companies' = out.companies
          /\ hook' = [NoHook EXCEPT
                        !.provider = "sendgrid",
                        !.count = Len(<<event>>),
                        !.results = <<SendGridResult(event, messageId, out.outcome)>>]
  /\ HookQuiet

\* the store after a first run that found no schedule row and selected the
\* first two companies: both were sent to and recorded, the first was marked
\* contacted and counted, the update of the second failed
InitWebhookTwo ==
  /\ schedule = [d \in Dates |->
                   IF d = Today
                     THEN RowIncremented(NewScheduleRow(DAILY_EMAIL_LIMIT),
                                         NewScheduleRow(DAILY_EMAIL_LIMIT))
                     ELSE NoRow]
  /\ companies = [c \in CompanyIds |->
                   [email_verified |-> TRUE,
                    status |-> IF c = 1 THEN "contacted" ELSE "pending",
                    priority |-> 1]]
  /\ emails = <<SentEmail(1, 1), SentEmail(2, 2)>>
  /\ deliveries = <<1, 2>>
  /\ incReturned = [d \in Dates |-> IF d = Today THEN 1 ELSE 0]
  /\ rowCount = [d \in Dates |-> IF d = Today THEN 1 ELSE 0]
  /\ hook = NoHook
  /\ ret = CallRecord("main", Today, 0, "completed", 0)
  /\ pc = [p \in Procs |-> "idle"]
  /\ loc = [p \in Procs |-> IdleLoc]

\* webhook calls of both providers, one event each
NextWebhookTwo ==
  \/ SendGridOne
  \/ MailgunWebhook

SpecWebhookTwo == InitWebhookTwo /\ [][NextWebhookTwo]_vars

NextWebhook ==
  \/ SendGridStart
  \/ SendGridInvalid
  \/ SendGridEvent
  \/ MailgunWebhook

SpecWebhook == InitWebhook /\ [][NextWebhook]_vars

(* ------------------ runs and tracking webhooks together ---------------- *)
\* companies as imported (email_verified defaults to false), the address of
\* the first one verified since; no schedule row yet
InitOrchHook ==
  /\ schedule = [d \in Dates |-> NoRow]
  /\ companies = [c \in CompanyIds |->
                   [email_verified |-> (c = 1), status |-> "pending", priority |-> 1]]
  /\ InitRest

\* the webhook calls of the scenario: one of SendGrid with one event, and
\* after it one of Mailgun
FirstSendGridOne ==
  /\ hook.provider = "none"
  /\ SendGridOne

MailgunAfterSendGrid ==
  /\ hook.provider = "sendgrid"
  /\ MailgunWebhook

\* runs one after the other, and the two webhook calls between their steps
NextOrchHook ==
  \/ MainStart(SeqProc)
  \/ MainStep(SeqProc)
  \/ FirstSendGridOne
  \/ MailgunAfterSendGrid

SpecOrchHook == InitOrchHook /\ [][NextOrchHook]_vars

(* --------------- overlapping runs over one eligible company ------------ *)
SpecOrchPair == InitOrchHook /\ [][NextOrchConc]_vars

(* ============================ properties ================================ *)
HasRow(d) == schedule[d] # NoRow

\* positions of main() inside its loop over the selected companies
LoopPcs == {"generate", "send", "create_email", "mark", "main_inc_get", "main_inc_put"}

\* the step in which a call inside the loop body throws: main() leaves the
\* statement it is at without that statement's effect
StepFailed(p) ==
  /\ <<pc'[p], loc'[p]>> # <<pc[p], loc[p]>>
  /\ \/ pc[p] = "generate" /\ pc'[p] # "send"
     \/ pc[p] = "send" /\ pc'[p] # "create_email"
     \/ pc[p] = "create_email" /\ pc'[p] # "mark"
     \/ pc[p] = "mark" /\ pc'[p] # "main_inc_get"
     \/ pc[p] = "main_inc_get" /\ pc'[p] # "main_inc_put"
     \/ pc[p] = "main_inc_put" /\ incReturned' = incReturned

\* the companies a running main() selected
Selected(p) == {loc[p].batch[i] : i \in 1 .. Len(loc[p].batch)}

\* C1: for every date with a schedule row, after any sequence of
\* incrementEmailsSent calls run one after the other, each succeeding or
\* failing, emails_sent <= emails_limit.
C1_SentWithinLimit ==
  \A d \in Dates : HasRow(d) => schedule[d].emails_sent <= schedule[d].emails_limit

\* a call was refused at a positive limit that the counter had reached
C1_Witness ==
  /\ ret.op = "incrementEmailsSent"
  /\ ret.result = "limit_reached"
  /\ HasRow(ret.date)
  /\ schedule[ret.date].emails_limit > 0
  /\ schedule[ret.date].emails_sent = schedule[ret.date].emails_limit

\* C2: incrementEmailsSent(d) called when emails_sent >= emails_limit fails
\* with the limit-reached error and leaves the row unchanged; called when
\* emails_sent < emails_limit it raises emails_sent by exactly 1 (and touches
\* no other date).  A call in which the store itself fails is the one case
\* the claim does not speak of: it changes no row.
C2_IncrementOutcome ==
  [][ret'.op = "incrementEmailsSent" /\ HasRow(ret'.date) =>
       LET d == ret'.date
           row == schedule[d]
       IN IF ret'.result = "store_error" THEN schedule' = schedule
          ELSE IF row.emails_sent >= row.emails_limit
            THEN ret'.result = "limit_reached" /\ schedule' = schedule
            ELSE /\ ret'.result = "ok"
                 /\ schedule'[d].emails_sent = row.emails_sent + 1
                 /\ schedule'[d].emails_limit = row.emails_limit
                 /\ \A e \in Dates \ {d} : schedule'[e] = schedule[e]]_vars

\* a call succeeded below the limit and left the row still below it
C2_Witness ==
  /\ ret.op = "incrementEmailsSent"
  /\ ret.result = "ok"
  /\ schedule[ret.date].emails_sent = 1
  /\ schedule[ret.date].emails_limit = 2

\* C3: when several incrementEmailsSent(d) calls run concurrently, no update
\* is lost: once they have all returned, emails_sent(d) is its initial value
\* (0 for a fresh row) plus the number of calls that returned successfully.
C3_NoLostUpdate ==
  \A d \in Dates :
    (HasRow(d) /\ IncRunning(d) = 0) => schedule[d].emails_sent = incReturned[d]

\* C4: over any number of orchestrator runs one after the other on the same
\* date, failing calls included, the emails delivered on that date never
\* exceed the date's emails_limit.
C4_DeliveredWithinLimit ==
  HasRow(Today) => Len(deliveries) <= schedule[Today].emails_limit

\* C5: when two orchestrator runs overlap on the same date, the emails
\* delivered on that date do not exceed the date's emails_limit.
C5_DeliveredWithinLimitConcurrent ==
  HasRow(Today) => ~(Len(deliveries) > schedule[Today].emails_limit)

\* C6: in every state reachable by schedule-tracker operations, every
\* schedule row has emails_sent <= emails_limit.
C6_SentWithinLimitAllOps ==
  \A d \in Dates : HasRow(d) => ~(schedule[d].emails_sent > schedule[d].emails_limit)

\* C7: in every state reachable by schedule-tracker operations, every
\* schedule row has is_completed = (emails_sent >= emails_limit).
C7_CompletedIsDerived ==
  \A d \in Dates :
    HasRow(d) =>
      (schedule[d].is_completed <=> schedule[d].emails_sent >= schedule[d].emails_limit)

\* C8: emails_sent(d) never decreases from one state to the next, under any
\* interleaving of orchestrator runs.
C8_SentNeverDecreases ==
  [][\A d \in Dates :
       HasRow(d) => /\ schedule'[d] # NoRow
                    /\ schedule'[d].emails_sent >= schedule[d].emails_sent]_vars

\* C9: a successful createOrUpdateEmailSchedule(d, limit) inserts the row
\* (limit, emails_sent 0, is_completed false) when d has none, and otherwise
\* sets emails_limit = limit and leaves that row's emails_sent as it was; the
\* rows of all other dates are unchanged.
C9_CreateOrUpdateFrame ==
  [][ret'.op = "createOrUpdateEmailSchedule" /\ ret'.result = "ok" =>
       LET d == ret'.date
           limit == ret'.arg
       IN /\ IF schedule[d] = NoRow
               THEN schedule'[d] = [emails_limit |-> limit, emails_sent |-> 0,
                                    is_completed |-> FALSE]
               ELSE /\ schedule'[d].emails_limit = limit
                    /\ schedule'[d].emails_sent = schedule[d].emails_sent
          /\ \A e \in Dates \ {d} : schedule'[e] = schedule[e]]_vars

\* the limit of a row that had been counted up was overwritten, another date
\* holding a row as well
C9_Witness ==
  /\ ret.op = "createOrUpdateEmailSchedule"
  /\ ret.result = "ok"
  /\ schedule[ret.date].emails_sent > 0
  /\ schedule[ret.date].emails_limit = ret.arg
  /\ \E e \in Dates \ {ret.date} : HasRow(e)

\* C10: getRemainingEmailQuota returns max(0, emails_limit - emails_sent) of
\* today's row, a value >= 0, and changes nothing; when today has no row it
\* creates one with the default limit and emails_sent = 0 and returns the
\* default limit.
C10_RemainingQuota ==
  [][ret'.op = "getRemainingEmailQuota" /\ ret'.result = "ok" =>
       IF schedule[Today] = NoRow
         THEN /\ schedule'[Today] = [emails_limit |-> DAILY_EMAIL_LIMIT,
                                     emails_sent |-> 0, is_completed |-> FALSE]
              /\ ret'.value = DAILY_EMAIL_LIMIT
         ELSE /\ ret'.value >= 0
              /\ ret'.value = Max(0, schedule[Today].emails_limit
                                       - schedule[Today].emails_sent)
              /\ schedule' = schedule]_vars

\* the quota was asked for a row whose counter is above its limit
C10_Witness ==
  /\ ret.op = "getRemainingEmailQuota"
  /\ ret.result = "ok"
  /\ ret.value = 0
  /\ schedule[Today].emails_sent > schedule[Today].emails_limit

\* C11: a successful generateEmailSchedules(n) writes the schedules of the n
\* days from today on, day offsets k = 0 .. n-1: started when the latest
\* schedule has limit L, day offset k gets the limit L + (k+1)*increment;
\* started with no schedule at all, day offset k gets default + k*increment.
C11_GeneratedLimits ==
  [][ret'.op = "generateEmailSchedules" /\ ret'.result = "ok" =>
       LET have == {d \in Dates : HasRow(d)}
           n == ret'.arg
       IN \A k \in 0 .. (n - 1) :
            /\ schedule'[Today + k] # NoRow
            /\ schedule'[Today + k].emails_limit =
                 IF have = {}
                   THEN DAILY_EMAIL_LIMIT + k * EMAIL_WARMUP_INCREASE_RATE
                   ELSE schedule[CHOOSE d \in have : \A e \in have : e <= d].emails_limit
                          + (k + 1) * EMAIL_WARMUP_INCREASE_RATE]_vars

\* C11 as stated: started when the latest schedule has limit L, the call
\* produces the limits L + k*increment at the day offsets k = 1 .. n from
\* today; started with no schedule, day offset k has default + k*increment.
C11_AsStated ==
  [][ret'.op = "generateEmailSchedules" /\ ret'.result = "ok" =>
       LET have == {d \in Dates : HasRow(d)}
           n == ret'.arg
       IN IF have = {}
            THEN \A k \in 0 .. (n - 1) :
                   /\ schedule'[Today + k] # NoRow
                   /\ schedule'[Today + k].emails_limit =
                        DAILY_EMAIL_LIMIT + k * EMAIL_WARMUP_INCREASE_RATE
            ELSE \A k \in 1 .. n :
                   (Today + k) \in Dates =>
                     /\ schedule'[Today + k] # NoRow
                     /\ schedule'[Today + k].emails_limit =
                          schedule[CHOOSE d \in have : \A e \in have : e <= d].emails_limit
                            + k * EMAIL_WARMUP_INCREASE_RATE]_vars

\* two days were generated on top of a latest schedule of limit 1
C11_Witness ==
  /\ ret.op = "generateEmailSchedules"
  /\ ret.result = "ok"
  /\ ret.arg = 2
  /\ schedule[Today].emails_limit = 1 + EMAIL_WARMUP_INCREASE_RATE
  /\ schedule[Today + 1].emails_limit = 1 + 2 * EMAIL_WARMUP_INCREASE_RATE

\* C12: the schedule table holds at most one row per calendar date and no
\* operation removes a row, also when callers that both found the date
\* without a row create it at the same time: one insert is rejected.
C12_OneRowPerDate ==
  [][\A d \in Dates :
       /\ rowCount'[d] <= 1
       /\ rowCount'[d] >= rowCount[d]
       /\ (schedule'[d] # NoRow) <=> (rowCount'[d] = 1)
       /\ HasRow(d) => schedule'[d] # NoRow]_vars

\* a run found today without a row, and its insert was rejected because
\* another caller had created the row meanwhile
C12_Witness ==
  /\ ret.op = "main"
  /\ ret.result = "duplicate_date"
  /\ rowCount[Today] = 1
  /\ HasRow(Today)

\* C13: a run that starts with remaining quota q > 0 and n >= q eligible
\* companies selects q of them, processes each of the q once, in turn, and
\* then stops; no company outside the q is touched by the run, so every
\* other eligible company is still pending when the run ends.
C13_ProcessesQuotaMany ==
  [][\A p \in Procs :
       /\ (pc[p] = "select" /\ pc'[p] = "generate") =>
            LET q == loc[p].quota
                E == {c \in CompanyIds : companies[c].email_verified
                                          /\ companies[c].status = "pending"}
                b == loc'[p].batch
            IN /\ q > 0
               /\ Cardinality(E) >= q => Len(b) = q
               /\ \A i \in 1 .. Len(b) : b[i] \in E
               /\ \A i, j \in 1 .. Len(b) : i # j => b[i] # b[j]
               /\ loc'[p].idx = 1
       /\ pc[p] \in LoopPcs =>
            /\ pc'[p] = "idle" => loc[p].idx = Len(loc[p].batch)
            /\ pc'[p] # "idle" =>
                 /\ loc'[p].batch = loc[p].batch
                 /\ loc'[p].idx = IF pc'[p] = "generate" THEN loc[p].idx + 1
                                                        ELSE loc[p].idx
            /\ \A c \in CompanyIds \ Selected(p) : companies'[c] = companies[c]
            /\ \A c \in Selected(p) :
                 companies'[c] # companies[c] => c = loc[p].batch[loc[p].idx]]_vars

\* a run with quota 1 has ended: one company was processed and contacted,
\* another eligible one is still pending
C13_Witness ==
  /\ ret.op = "main"
  /\ ret.result = "completed"
  /\ HasRow(Today)
  /\ schedule[Today].emails_limit = 1
  /\ Len(deliveries) = 1
  /\ \E c \in CompanyIds : companies[c].status = "contacted"
  /\ \E c \in CompanyIds : companies[c].status = "pending" /\ companies[c].email_verified

\* C14: the companies a run selects are the first q eligible ones in the
\* order ascending priority, then ascending creation time, and the batch is
\* in that order: among companies of equal priority none that was left out
\* was created before one that was selected. Company ids number the
\* companies in the order of their creation.
C14_SelectionOrder ==
  [][\A p \in Procs :
       (pc[p] = "select" /\ pc'[p] = "generate") =>
         LET E == {c \in CompanyIds : companies[c].email_verified
                                       /\ companies[c].status = "pending"}
             b == loc'[p].batch
             Before(c, d) == \/ companies[c].priority < companies[d].priority
                             \/ /\ companies[c].priority = companies[d].priority
                                /\ c < d
         IN /\ \A i, j \in 1 .. Len(b) : i < j => Before(b[i], b[j])
            /\ \A c \in E \ {b[i] : i \in 1 .. Len(b)} :
                 \A i \in 1 .. Len(b) : Before(b[i], c)]_vars

\* C15: a failure of a step for one selected company (content generation,
\* send, email-record insert, company update, counter increment) never
\* aborts the batch: the run goes on with the company selected next, and it
\* ends, as completed, only when the failing company was the last one.
C15_FailureDoesNotAbort ==
  [][\A p \in Procs :
       StepFailed(p) =>
         IF loc[p].idx < Len(loc[p].batch)
           THEN /\ pc'[p] = "generate"
                /\ loc'[p].batch = loc[p].batch
                /\ loc'[p].idx = loc[p].idx + 1
           ELSE /\ pc'[p] = "idle"
                /\ ret'.op = "main"
                /\ ret'.result = "completed"]_vars

\* the second company of a batch is being processed after the first one
\* failed before it was marked as contacted
C15_Witness ==
  \E p \in Procs :
    /\ pc[p] \in LoopPcs
    /\ loc[p].idx = 2
    /\ companies[loc[p].batch[1]].status = "pending"

\* C16: once incrementEmailsSent has raised the limit error while a run
\* processed a company, the run stops: it sends no email for any company
\* selected after that one.
C16_StopsOnLimitError ==
  [][\A p \in Procs : loc[p].limitError => deliveries' = deliveries]_vars

\* C17: a company whose processing fails at content generation, at the send,
\* at the email-record insert or at the company update has status pending;
\* one whose processing fails at the counter increment has been marked
\* contacted before. The run leaves the rows of the companies it has
\* processed as they are, so this is their status at the end of the run, and
\* it sends to no company it has processed before: no second send.
C17_FailedBeforeMarkStaysPending ==
  [][\A p \in Procs :
       /\ StepFailed(p) =>
            companies'[loc[p].batch[loc[p].idx]].status =
              IF pc[p] \in {"generate", "send", "create_email", "mark"}
                THEN "pending" ELSE "contacted"
       /\ pc[p] \in LoopPcs =>
            /\ \A i \in 1 .. (loc[p].idx - 1) :
                 companies'[loc[p].batch[i]] = companies[loc[p].batch[i]]
            /\ deliveries' # deliveries =>
                 /\ deliveries' = Append(deliveries, loc[p].batch[loc[p].idx])
                 /\ \A i \in 1 .. (loc[p].idx - 1) :
                      loc[p].batch[i] # loc[p].batch[loc[p].idx]
                 /\ pc[p] = "send" /\ pc'[p] = "create_email"]_vars

\* C17 as stated: a company whose processing fails at any step has status
\* pending (at the failing step, and so at the end of the run, which does
\* not touch it again), and the run sends to no company a second time.
C17_AsStated ==
  [][\A p \in Procs :
       /\ StepFailed(p) => companies'[loc[p].batch[loc[p].idx]].status = "pending"
       /\ pc[p] \in LoopPcs =>
            /\ \A i \in 1 .. (loc[p].idx - 1) :
                 companies'[loc[p].batch[i]] = companies[loc[p].batch[i]]
            /\ deliveries' # deliveries =>
                 \A i \in 1 .. (loc[p].idx - 1) :
                   loc[p].batch[i] # loc[p].batch[loc[p].idx]]_vars

\* a run has ended without a single send: each company it selected failed
\* at generation or at the send, and all are pending
C17_Witness ==
  /\ ret.op = "main"
  /\ ret.result = "completed"
  /\ deliveries = << >>
  /\ \A c \in CompanyIds : companies[c].status = "pending"

\* C18: a run that finds today's remaining quota at 0 does nothing: it ends
\* at its quota check, selects no company, sends nothing, creates no email
\* record, and leaves every company row and today's schedule row, emails_sent
\* included, as they were.
C18_NoQuotaNoOp ==
  [][\A p \in Procs :
       (/\ pc[p] = "quota_get"
        /\ pc'[p] # "quota_get"
        /\ HasRow(Today)
        /\ schedule[Today].emails_limit - schedule[Today].emails_sent <= 0) =>
         /\ pc'[p] = "idle"
         /\ loc[p].batch = << >>
         /\ loc'[p].batch = << >>
         /\ ret'.op = "main"
         /\ ret'.result \in {"quota_reached", "error"}
         /\ deliveries' = deliveries
         /\ emails' = emails
         /\ companies' = companies
         /\ schedule' = schedule]_vars

\* a run ended at its quota check: today's limit is used up by earlier
\* sends, and an eligible company is waiting
C18_Witness ==
  /\ ret.op = "main"
  /\ ret.result = "quota_reached"
  /\ HasRow(Today)
  /\ schedule[Today].emails_sent > 0
  /\ schedule[Today].emails_sent = schedule[Today].emails_limit
  /\ \E c \in CompanyIds : companies[c].email_verified /\ companies[c].status = "pending"

\* C19: processSendGridWebhook called with k events returns k results, one
\* per event in the order of the events. A store failure while an event is
\* handled gives that event an error result carrying the store's message,
\* and nothing more; every other event, before or after a failed one, is
\* handled and reported as its kind and its message id alone determine.
C19_BatchResults ==
  [][/\ Len(hook'.results) + hook'.remaining = hook'.count
     /\ (hook.provider = "sendgrid" /\ hook.remaining > 0 /\ hook' # hook) =>
          LET r == hook'.results[Len(hook'.results)]
              found == {i \in 1 .. Len(emails) : emails[i].message_id = r.messageId}
              i == CHOOSE i \in found : \A j \in found : i <= j
              bounced == [emails EXCEPT ![i].status = "bounced"]
          IN /\ hook'.count = hook.count
             /\ hook'.remaining = hook.remaining - 1
             /\ hook'.results = Append(hook.results, r)
             /\ IF r.status = "error"
                  THEN /\ r.error = StoreErrorMessage
                       /\ companies' = companies
                       /\ \/ emails' = emails
                          \/ found # {} /\ r.event = "bounce" /\ emails' = bounced
                ELSE IF found = {}
                  THEN /\ r.status = "skipped" /\ r.reason = "Email not found"
                       /\ emails' = emails /\ companies' = companies
                ELSE IF r.event = "open"
                  THEN /\ r.status = "success"
                       /\ companies' = companies
                       /\ \E ts \in Timestamps :
                            emails' = [emails EXCEPT ![i].status = "opened",
                                                     ![i].opened_at = ts]
                ELSE IF r.event = "click"
                  THEN /\ r.status = "success"
                       /\ companies' = companies
                       /\ \E ts \in Timestamps :
                            emails' = [emails EXCEPT ![i].status = "clicked",
                                                     ![i].clicked_at = ts]
                ELSE IF r.event = "bounce"
                  THEN /\ r.status = "success"
                       /\ emails' = bounced
                       /\ companies' = [companies EXCEPT
                                         ![emails[i].company_id].email_verified = FALSE]
                ELSE /\ r.status = "skipped" /\ r.reason = "Unsupported event type"
                     /\ emails' = emails /\ companies' = companies]_vars

\* a call with two events has returned: the first event met a store failure,
\* the second, an open of the same email, was handled all the same
C19_Witness ==
  /\ hook.provider = "sendgrid"
  /\ hook.count = 2
  /\ hook.remaining = 0
  /\ Len(hook.results) = 2
  /\ hook.results[1].status = "error"
  /\ hook.results[2].status = "success"
  /\ hook.results[2].event = "open"
  /\ hook.results[1].messageId = hook.results[2].messageId
  /\ emails[1].status = "opened"

\* C20: a webhook event whose message id matches no email changes no email
\* row and no company row. In a SendGrid batch its result is skipped with the
\* reason that the email was not found; a Mailgun call, which carries one
\* event, returns a failure saying so. (When the lookup itself fails, the
\* result is the store's error instead.)
C20_UnknownMessageId ==
  [][/\ (hook.provider = "sendgrid" /\ hook.remaining > 0 /\ hook' # hook) =>
          LET r == hook'.results[Len(hook'.results)]
          IN (\A i \in 1 .. Len(emails) : emails[i].message_id # r.messageId) =>
               /\ emails' = emails
               /\ companies' = companies
               /\ \/ r.status = "skipped" /\ r.reason = "Email not found"
                  \/ r.status = "error" /\ r.error = StoreErrorMessage
     /\ (hook'.provider = "mailgun" /\ hook.remaining = 0) =>
          ((\A i \in 1 .. Len(emails) : emails[i].message_id # hook'.reply.messageId) =>
             /\ emails' = emails
             /\ companies' = companies
             /\ ~hook'.reply.success
             /\ hook'.reply.error \in {<<"Email not found">>, <<StoreErrorMessage>>})]_vars

\* a Mailgun call for a message id of no email has returned its not-found
\* failure, the one email of the table being as it was sent
C20_Witness ==
  /\ hook.provider = "mailgun"
  /\ ~hook.reply.success
  /\ hook.reply.error = <<"Email not found">>
  /\ \A i \in 1 .. Len(emails) : emails[i].message_id # hook.reply.messageId
  /\ Len(emails) > 0
  /\ emails[1].status = "sent"

\* the webhook call that has just returned handled an event of this kind
\* ("open", "click", "bounce") with success, for this message id
JustHandled(kind, messageId) ==
  \/ /\ hook'.provider = "sendgrid"
     /\ Len(hook'.results) > 0
     /\ hook'.results[Len(hook'.results)].status = "success"
     /\ hook'.results[Len(hook'.results)].event = kind
     /\ hook'.results[Len(hook'.results)].messageId = messageId
  \/ /\ hook'.provider = "mailgun"
     /\ hook'.reply.success
     /\ hook'.reply.event = (IF kind = "open" THEN "opened"
                              ELSE IF kind = "click" THEN "clicked" ELSE "bounced")
     /\ hook'.reply.messageId = messageId

\* C21: a successfully handled bounce event for an email of company X sets
\* that email's status to bounced and X's email_verified to false; X's status
\* (pending or contacted), the other fields of the email, every other email
\* and every other company stay as they were.
C21_BounceFrame ==
  [][\A m \in 1 .. Len(emails) :
       (JustHandled("bounce", emails[m].message_id)
        /\ \A j \in 1 .. (m - 1) : emails[j].message_id # emails[m].message_id) =>
         /\ emails' = [emails EXCEPT ![m].status = "bounced"]
         /\ companies' = [companies EXCEPT ![emails[m].company_id].email_verified = FALSE]
         /\ companies'[emails[m].company_id].status = companies[emails[m].company_id].status]_vars

\* the email of the pending company has bounced: the company is unverified
\* and still pending; the other email had been opened and its company is
\* verified and contacted
C21_Witness ==
  /\ hook.provider \in {"sendgrid", "mailgun"}
  /\ Len(emails) = 2
  /\ emails[2].status = "bounced"
  /\ ~companies[emails[2].company_id].email_verified
  /\ companies[emails[2].company_id].status = "pending"
  /\ emails[1].status = "opened"
  /\ companies[emails[1].company_id].email_verified
  /\ companies[emails[1].company_id].status = "contacted"

\* C23: an event whose type is none of open, click, bounce changes no email
\* and no company row, for both providers. When an email carries its message
\* id, a SendGrid batch reports it as skipped with the reason unsupported
\* event type, and a Mailgun call returns a failure naming the unsupported
\* type; when none does, the event is reported as not found; when the lookup
\* fails, as the store's error.
C23_UnsupportedEvent ==
  [][/\ (/\ hook'.provider = "sendgrid"
         /\ Len(hook'.results) > 0
         /\ hook'.results[Len(hook'.results)].event \notin {"open", "click", "bounce"}) =>
          LET r == hook'.results[Len(hook'.results)]
              known == \E i \in 1 .. Len(emails) : emails[i].message_id = r.messageId
          IN /\ emails' = emails
             /\ companies' = companies
             /\ \/ r.status = "error" /\ r.error = StoreErrorMessage
                \/ /\ r.status = "skipped"
                   /\ r.reason = IF known THEN "Unsupported event type"
                                          ELSE "Email not found"
     /\ (/\ hook'.provider = "mailgun"
         /\ hook'.event \notin {"opened", "clicked", "bounced"}) =>
          LET known == \E i \in 1 .. Len(emails) :
                         emails[i].message_id = hook'.reply.messageId
          IN /\ emails' = emails
             /\ companies' = companies
             /\ ~hook'.reply.success
             /\ \/ hook'.reply.error = <<StoreErrorMessage>>
                \/ hook'.reply.error = IF known
                                         THEN <<"Unsupported event type: ", hook'.event>>
                                         ELSE <<"Email not found">>]_vars

\* C23 as stated: such an event changes no row and is reported as skipped
\* for an unsupported type, by either provider's handler (a failing lookup
\* set aside).
C23_AsStated ==
  [][/\ (/\ hook'.provider = "sendgrid"
         /\ Len(hook'.results) > 0
         /\ hook'.results[Len(hook'.results)].event \notin {"open", "click", "bounce"}
         /\ hook'.results[Len(hook'.results)].status # "error") =>
          /\ emails' = emails
          /\ companies' = companies
          /\ hook'.results[Len(hook'.results)].status = "skipped"
          /\ hook'.results[Len(hook'.results)].reason = "Unsupported event type"
     /\ (/\ hook'.provider = "mailgun"
         /\ hook'.event \notin {"opened", "clicked", "bounced"}
         /\ hook'.reply.error # <<StoreErrorMessage>>) =>
          /\ emails' = emails
          /\ companies' = companies
          /\ ~hook'.reply.success
          /\ hook'.reply.error = <<"Unsupported event type: ", hook'.event>>]_vars

\* a delivered event for the second email has been reported as unsupported
\* by SendGrid's handler; the email is as it was sent
C23_Witness ==
  /\ hook.provider = "sendgrid"
  /\ Len(hook.results) = 1
  /\ hook.results[1].event = "delivered"
  /\ hook.results[1].status = "skipped"
  /\ hook.results[1].reason = "Unsupported event type"
  /\ Len(emails) = 2
  /\ hook.results[1].messageId = emails[2].message_id
  /\ emails[2].status = "sent"

\* C22: an open event followed by a click event for the same message id,
\* both handled successfully, leaves the email with opened_at at the open
\* event's timestamp, clicked_at at the click event's timestamp and status
\* clicked; so for either provider's names of the two events, whatever the
\* email's state before.
C22_OpenThenClick ==
  \A i \in 1 .. Len(emails), t1 \in Timestamps, t2 \in Timestamps :
    \A names \in {<<SendGridKind("open"), SendGridKind("click")>>,
                   <<MailgunKind("opened"), MailgunKind("clicked")>>} :
      (\A j \in 1 .. (i - 1) : emails[j].message_id # emails[i].message_id) =>
        LET m == emails[i].message_id
            opened == HandleEvent(emails, companies, names[1], m, t1, "none")
            clicked == HandleEvent(opened.emails, opened.companies, names[2], m, t2, "none")
        IN /\ opened.outcome = "success"
           /\ clicked.outcome = "success"
           /\ clicked.emails[i].opened_at = t1
           /\ clicked.emails[i].clicked_at = t2
           /\ clicked.emails[i].status = "clicked"

\* a batch of an open and then a click of the same email has returned, both
\* with success; the email holds two different timestamps
C22_Witness ==
  /\ hook.provider = "sendgrid"
  /\ hook.remaining = 0
  /\ Len(hook.results) = 2
  /\ hook.results[1].event = "open" /\ hook.results[1].status = "success"
  /\ hook.results[2].event = "click" /\ hook.results[2].status = "success"
  /\ hook.results[1].messageId = hook.results[2].messageId
  /\ emails[1].status = "clicked"
  /\ emails[1].opened_at # 0
  /\ emails[1].clicked_at # 0
  /\ emails[1].opened_at # emails[1].clicked_at

\* C25: handling the same event (message id, type, timestamp) a second
\* time right after the first changes nothing in the store: status,
\* opened_at and clicked_at of the email and email_verified of its company
\* are as after the first time.
C25_SameEventTwice ==
  \A kind \in {SendGridKind(e) : e \in SendGridEvents} \cup {MailgunKind(e) : e \in MailgunEvents} :
    \A m \in EventMessageIds, ts \in Timestamps :
      LET once == HandleEvent(emails, companies, kind, m, ts, "none")
          twice == HandleEvent(once.emails, once.companies, kind, m, ts, "none")
      IN /\ twice.outcome = once.outcome
         /\ twice.emails = once.emails
         /\ twice.companies = once.companies

\* a batch of two bounces of the same email has returned, both with
\* success: the email is bounced and its company unverified
C25_Witness ==
  /\ hook.provider = "sendgrid"
  /\ hook.remaining = 0
  /\ Len(hook.results) = 2
  /\ hook.results[1] = hook.results[2]
  /\ hook.results[1].event = "bounce"
  /\ hook.results[1].status = "success"
  /\ emails[1].status = "bounced"
  /\ ~companies[emails[1].company_id].email_verified

\* C24: under runs and webhook events in any order, an email record is
\* created by a run, with status sent, and from then on its status is only
\* ever changed by the webhook handlers, to opened, clicked or bounced: no
\* step writes draft or replied, none puts a record back to sent, and no
\* record disappears.
C24_StatusEdges ==
  [][/\ Len(emails') >= Len(emails)
     /\ \A i \in 1 .. Len(emails') :
          IF i > Len(emails)
            THEN /\ emails'[i].status = "sent"
                 /\ pc[SeqProc] = "create_email"
                 /\ hook' = hook
            ELSE \/ emails'[i].status = emails[i].status
                 \/ /\ emails'[i].status \in {"opened", "clicked", "bounced"}
                    /\ hook' # hook
                    /\ pc' = pc]_vars

\* the first email was opened and then clicked, by the two webhook calls; a
\* later run has recorded a second email, which is as sent
C24_Witness ==
  /\ Len(emails) >= 2
  /\ emails[1].status = "clicked"
  /\ emails[1].opened_at # 0
  /\ emails[2].status = "sent"
  /\ hook.provider = "mailgun"

\* the step of a run in which a call of the schedule tracker fails with a
\* store error: getRemainingEmailQuota's reads and insert at the start, or
\* incrementEmailsSent's read (with a row below its limit, so that nothing
\* else can make it throw) or update after a send
TrackerStoreError(p) ==
  /\ <<pc'[p], loc'[p]>> # <<pc[p], loc[p]>>
  /\ \/ /\ pc[p] \in {"quota_get", "cou_get", "cou_insert"}
        /\ pc'[p] = "idle"
        /\ ret'.result = "error"
     \/ /\ pc[p] = "main_inc_get"
        /\ pc'[p] # "main_inc_put"
        /\ HasRow(Today)
        /\ ~LimitReached(schedule[Today])
     \/ /\ pc[p] = "main_inc_put"
        /\ incReturned' = incReturned

\* C26: a store error of a schedule-tracker call during a run (in
\* getRemainingEmailQuota at the start, in incrementEmailsSent after a send)
\* is not handled as a failure of one company: the step in which it is
\* raised ends the run, so that the run sends to no further company.
C26_TrackerErrorHalts ==
  [][\A p \in Procs : TrackerStoreError(p) => pc'[p] = "idle"]_vars

\* the email records of a company
EmailsOf(c) == {i \in 1 .. Len(emails) : emails[i].company_id = c}

C28_OneDeliveryPerCompany ==
  \A j, k \in 1 .. Len(deliveries) : deliveries[j] = deliveries[k] => j = k

\* C29: whichever way runs overlap, the counter of a date is at most the
\* number of emails the runs have delivered on that date: emails_sent is
\* raised only by a run that has a delivery of its own behind it.
C29_NoOverCount ==
  \A d \in Dates :
    HasRow(d) => schedule[d].emails_sent <= (IF d = Today THEN Len(deliveries) ELSE 0)

\* two runs have sent and both their increments returned, the second one
\* from a row read before the first one wrote: one delivery is not counted
C29_Witness ==
  /\ HasRow(Today)
  /\ incReturned[Today] = 2
  /\ Len(deliveries) = 2
  /\ schedule[Today].emails_sent = 1

\* the step in which a run gets its companies from the store
Selects(p) ==
  /\ pc[p] = "select"
  /\ pc'[p] = "generate"

====
